---- MODULE Spec2Model ----
(***************************************************************************)
(* Three tutorial notebooks that drive an external numerical library:      *)
(*   nmf  - text categorisation with non-negative matrix factorisation     *)
(*   vol  - implied volatilities, root finder against opt_imp_vol          *)
(*   socp - a second-order cone programme solved through a problem handle  *)
(* The library routines are opaque: every call either raises or returns a  *)
(* value of the documented shape.  A notebook is run top to bottom; an     *)
(* exception that no except clause catches ends the run (pc = "aborted").  *)
(* Display-only cells (3, 4, 8, 10, 12, 15-18 of the nmf notebook, 7-8 of  *)
(* the socp notebook) change no state and are not steps of the model.      *)
(***************************************************************************)
EXTENDS Integers, Sequences, FiniteSets, TLC

VARIABLES
    notebook,   \* which notebook this run executes
    pc,         \* the cell / statement the run is at
    web,        \* nmf: the page served for each URL of brexit_trump_urls.txt
    web2,       \* nmf: the page served when the same URL is opened a second time
    n_links,    \* nmf: len(links)
    fetches,    \* nmf: urlopen calls issued so far, per URL
    dicts,      \* nmf: list of Counter, one per parsed page
    titles,     \* nmf: list of title lists
    words,      \* nmf: the word set (iteration order) / word list
    a,          \* nmf: the data matrix [shape, data]
    wordcounts, \* nmf: the lines written to wordcounts.txt
    h,          \* nmf: coefficients matrix returned by real_nmf
    printed,    \* nmf: lines printed by cell 20
    p,          \* vol: the option prices drawn by rand.dist_uniform
    outcome,    \* vol: how each contfn_cntin call so far ended
    nfev,       \* vol: callback evaluations made by the running contfn_cntin call
    residual,   \* vol: the last value black_scholes returned to the root finder
    errorcount, \* vol: the failure counter of cell 4
    failures,   \* vol: the failure counts printed by cells 5, 6 and 7
    handle,     \* socp: the problem handle, "none", "live" or "freed"
    calls,      \* socp: the handle calls that have returned, in order
    options,    \* socp: the option strings set on the handle, in order
    raised,     \* the library routines that have raised so far
    caught      \* the library routines whose exception an except clause caught

nmfVars == <<web, web2, n_links, fetches, dicts, titles, words, a, wordcounts, h, printed>>

volVars == <<p, outcome, nfev, residual, errorcount, failures>>

socpVars == <<handle, calls, options>>

excVars == <<raised, caught>>

vars == <<notebook, pc, nmfVars, volVars, socpVars, excVars>>

-----------------------------------------------------------------------------
(* Bounds                                                                   *)

\* at most this many URLs in brexit_trump_urls.txt
MaxLinks == 2

\* the number of volatilities the vol notebook computes (n = 10000 there)
n_points == 2

\* the limit on callback evaluations given to contfn_cntin (500 in the notebook)
nfmax == 2

-----------------------------------------------------------------------------
(* Characters and strings.  A Python str is a sequence of one-character     *)
(* strings.                                                                 *)

Pound == "£"

UpperCase == <<"A","B","C","D","E","F","G","H","I","J","K","L","M",
               "N","O","P","Q","R","S","T","U","V","W","X","Y","Z">>

LowerCase == <<"a","b","c","d","e","f","g","h","i","j","k","l","m",
               "n","o","p","q","r","s","t","u","v","w","x","y","z">>

\* str.lower() on one character
LowerChar(c) ==
    IF \E k \in 1..Len(UpperCase) : UpperCase[k] = c
    THEN LowerCase[CHOOSE k \in 1..Len(UpperCase) : UpperCase[k] = c]
    ELSE c

\* str.lower()
Lower(s) == [k \in 1..Len(s) |-> LowerChar(s[k])]

\* the grave accent, which a string literal of this language cannot hold
Backtick == "grave"

\* string.punctuation
Punctuation ==
    {"!", "\"", "#", "$", "%", "&", "'", "(", ")", "*", "+", ",", "-", ".", "/",
     ":", ";", "<", "=", ">", "?", "@", "[", "\\", "]", "^", "_", Backtick, "{", "|",
     "}", "~"}

\* the characters str.split() treats as separators
Whitespace == {" ", "\t", "\n", "\r"}

\* a translation table that leaves the full stop alone: the fault C14 rules
\* out
transKeepsStop(c) == IF c \in Punctuation \ {"."} THEN " " ELSE c

\* trans = str.maketrans(string.punctuation, ' '*len(string.punctuation))
trans(c) == IF c \in Punctuation THEN " " ELSE c

\* str.translate(trans)
Translate(s) == [k \in 1..Len(s) |-> trans(s[k])]

\* str.split(): the maximal runs of non-whitespace characters, in order
RECURSIVE SplitFrom(_, _, _)
SplitFrom(s, k, cur) ==
    IF k > Len(s)
    THEN IF cur = <<>> THEN <<>> ELSE <<cur>>
    ELSE IF s[k] \in Whitespace
         THEN IF cur = <<>>
              THEN SplitFrom(s, k + 1, <<>>)
              ELSE <<cur>> \o SplitFrom(s, k + 1, <<>>)
         ELSE SplitFrom(s, k + 1, Append(cur, s[k]))

Split(s) == SplitFrom(s, 1, <<>>)

\* the set of elements of a sequence
Range(s) == {s[k] : k \in 1..Len(s)}

\* the orders in which a set can be enumerated
RECURSIVE Perms(_)
Perms(S) ==
    IF S = {} THEN {<<>>}
    ELSE UNION {{<<x>> \o rest : rest \in Perms(S \ {x})} : x \in S}

-----------------------------------------------------------------------------
(* The nmf notebook: inputs                                                 *)

\* The pages the web may serve.  title is what the <title> regex finds (a
\* list, possibly empty); paras is what the <p> regex finds, consecutive
\* identical paragraphs stored once with their number of repetitions.
PageA == [title |-> <<"Brexit delay">>,
          paras |-> << [text |-> <<"T","h","e","n"," ","t","h","e"," ","d","e","a","l",","," ","D","e","a","l","!">>,
                        rep  |-> 1] >>]

PageB == [title |-> <<"EU deal">>,
          paras |-> << [text |-> <<"E","U"," ","d","e","a","l",".">>, rep |-> 1],
                       [text |-> <<"d","e","a","l">>, rep |-> 2] >>]

PageC == [title |-> <<>>,
          paras |-> << [text |-> <<Pound,"3","5","0","m"," ","2","0","1","9">>, rep |-> 1] >>]

PageD == [title |-> <<"Trump administration">>,
          paras |-> << [text |-> <<"A","d","m","i","n","i","s","t","r","a","t","i","o","n",
                                   " ","d","e","a","l">>,
                        rep  |-> 1000000] >>]

Pages == {PageA, PageB, PageC, PageD}

\* PageA as it reads once it has been edited between two requests
PageA2 == [title |-> <<"Brexit delay - updated">>,
           paras |-> << [text |-> <<"N","o"," ","d","e","a","l">>, rep |-> 1] >>]

\* what a URL may serve the second time, given what it served the first time
SecondPages(page) == IF page = PageA THEN {PageA, PageA2} ELSE {page}

\* cell 5
stopwords == {
    <<"t","h","e","n">>, <<"t","h","a","t">>, <<"h","a","v","e">>, <<"w","i","t","h">>,
    <<"f","r","o","m">>, <<"t","h","e","y">>, <<"h","e","r","e">>, <<"t","h","e","r","e">>,
    <<"t","h","e","i","r">>, <<"w","o","u","l","d">>, <<"w","h","a","t">>, <<"w","h","i","c","h">>,
    <<"a","b","o","u","t">>, <<"k","n","o","w">>, <<"j","u","s","t">>, <<"t","i","m","e">>,
    <<"l","i","k","e">>, <<"m","a","k","e">>, <<"y","o","u","r">>, <<"y","e","a","r">>,
    <<"s","o","m","e">>, <<"g","o","o","d">>, <<"i","n","t","o">>, <<"p","e","o","p","l","e">>,
    <<"t","h","e","m">>, <<"o","t","h","e","r">>, <<"t","h","a","n">>, <<"l","o","o","k">>,
    <<"o","n","l","y">>, <<"o","v","e","r">>, <<"t","h","i","n","k">>, <<"a","l","s","o">>,
    <<"b","a","c","k">>, <<"a","f","t","e","r">>, <<"w","o","r","k">>, <<"f","i","r","s","t">>,
    <<"w","e","l","l">>, <<"e","v","e","n">>, <<"w","a","n","t">>, <<"b","e","c","a","u","s","e">>,
    <<"t","h","e","s","e">>, <<"m","o","s","t">>, <<"l","e","a","v","e">>, <<"s","e","e","m">>,
    <<"c","o","m","e">>, <<"l","i","t","t","l","e">>, <<"l","a","s","t">>, <<"l","o","n","g">>,
    <<"g","r","e","a","t">>, <<"h","i","g","h">>, <<"s","m","a","l","l">>, <<"l","a","r","g","e">>,
    <<"n","e","x","t">>, <<"e","a","r","l","y">>, <<"s","a","m","e">>, <<"t","h","i","s">>,
    <<"a","w","a","y">>, <<"d","o","w","n">>, <<"t","h","r","e","e">>, <<"c","a","m","e">>,
    <<"f","o","u","r">>, <<"p","l","e","a","s","e">>, <<"p","r","e","t","t","y">>,
    <<"s","o","o","n">>, <<"u","n","d","e","r">>, <<"w","e","n","t">>, <<"w","h","i","t","e">>,
    <<"b","l","a","c","k">>, <<"g","i","v","e">>, <<"g","i","v","i","n","g">>,
    <<"g","i","v","e","n">>, <<"g","a","v","e">>, <<"k","n","o","w","i","n","g">>,
    <<"k","n","e","w">>, <<"o","n","c","e">>, <<"r","o","u","n","d">>, <<"s","t","o","p">>,
    <<"t","a","k","e">>, <<"t","a","k","e","n">>, <<"t","o","o","k">>, <<"t","h","a","n","k">>,
    <<"t","h","a","n","k","s">>, <<"w","a","l","k">>, <<"w","a","l","k","e","d">>,
    <<"a","l","w","a","y","s">>, <<"a","r","o","u","n","d">>, <<"b","e","e","n">>,
    <<"b","e","f","o","r","e">>, <<"b","e","s","t">>, <<"w","o","r","s","t">>, <<"f","i","n","d">>,
    <<"f","o","u","n","d">>, <<"g","o","e","s">>, <<"p","u","l","l">>, <<"r","e","a","d">>,
    <<"r","i","g","h","t">>, <<"w","r","o","n","g">>, <<"t","e","l","l">>,
    <<"t","e","l","l","i","n","g">>, <<"t","o","l","d">>, <<"u","p","o","n">>, <<"w","i","s","h">>,
    <<"w","r","i","t","e">>, <<"w","r","i","t","t","e","n">>, <<"b","e","t","t","e","r">>,
    <<"c","a","r","r","y">>, <<"c","a","r","r","i","e","d">>, <<"f","u","l","l">>,
    <<"h","o","l","d">>, <<"k","e","e","p">>, <<"k","e","p","t">>, <<"l","o","n","g","e","r">>,
    <<"l","o","n","g","e","s","t">>, <<"s","h","a","l","l">>, <<"w","i","l","l">>,
    <<"b","e","g","i","n">>, <<"b","e","g","i","n","n","i","n","g">>,
    <<"t","o","g","e","t","h","e","r">>, <<"t","o","d","a","y">>,
    <<"y","e","s","t","e","r","d","a","y">>, <<"c","h","i","l","d","r","e","n">>,
    <<"g","r","o","u","n","d">>, <<"h","o","l","d","i","n","g">>, <<"m","o","r","n","i","n","g">>,
    <<"a","f","t","e","r","n","o","o","n">>, <<"n","e","v","e","r">>, <<"m","y","s","e","l","f">>,
    <<"t","a","b","l","e">>, <<"w","a","t","e","r">>, <<"w","i","n","d">>,
    <<"w","i","n","d","o","w">>, <<"r","i","n","g">>, <<"r","u","n","g">>,
    <<"e","x","c","e","p","t">>, <<"w","h","e","r","e">>, <<"w","h","i","l","e">>,
    <<"w","o","m","a","n">>, <<"w","h","i","l","s","t">>, <<"w","e","r","e">>,
    <<"u","n","t","i","l">>, <<"t","h","i","n","g">>, <<"t","h","i","n","g","s">>,
    <<"t","h","e","i","r","s">>, <<"m","o","n","d","a","y">>, <<"t","u","e","s","d","a","y">>,
    <<"w","e","d","n","e","s","d","a","y">>, <<"t","h","u","r","s","d","a","y">>,
    <<"f","r","i","d","a","y">>, <<"s","a","t","u","r","d","a","y">>, <<"s","u","n","d","a","y">>,
    <<"s","h","o","u","l","d">>, <<"s","h","o","w","n">>, <<"s","h","u","t">>,
    <<"a","n","o","t","h","e","r">>, <<"b","e","i","n","g">>, <<"d","o","e","s">>,
    <<"d","o","i","n","g">>, <<"m","a","k","e","s">>, <<"m","o","r","e">>, <<"n","a","m","e">>,
    <<"n","a","m","e","s">>, <<"n","a","m","e","d">>, <<"t","h","r","o","u","g","h">>,
    <<"y","e","a","r","s">>, <<"u","s","e","d">>, <<"s","a","i","d">>, <<"s","a","y","i","n","g">>,
    <<"s","a","y","s">>, <<"s","e","e","n">>, <<"s","e","e","s">>, <<"s","e","e","i","n","g">>,
    <<"u","s","i","n","g">>, <<"u","s","e","s">>, <<"k","n","o","w","n">>, <<"l","e","f","t">>,
    <<"s","e","n","d">>, <<"s","e","n","t">>, <<"c","h","o","o","s","e">>,
    <<"c","h","o","i","c","e">>, <<"c","h","o","o","s","i","n","g">>, <<"g","o","i","n","g">>,
    <<"g","e","t","s">>, <<"b","e","l","o","w">>, <<"l","e","s","s">>, <<"l","e","a","s","t">>,
    <<"m","i","g","h","t">>, <<"h","r","e","f">>, <<"l","i","n","k">>, <<"h","t","t","p","s">>,
    <<"a","9","3","9">>, <<"a","b","b","e">>, <<"a","c","3","0","f","6","e","2","4","b","3","f">>,
    <<"a","b","a","b","a">>
    }


-----------------------------------------------------------------------------
(* The nmf notebook: cell 2, fetching and parsing                           *)

\* re.findall(r'<p>(.*?)</p>', f1.read().decode().lower()), then per paragraph
\* para.translate(trans).split(); a paragraph repeated rep times contributes
\* its tokens rep times
PageWords(page) ==
    [k \in 1..Len(page.paras) |->
        [toks |-> Split(Translate(Lower(page.paras[k].text))),
         rep  |-> page.paras[k].rep]]

\* dict.get with a sentinel of -1 for a missing key whatever the default: the
\* fault C2 rules out
GetSentinel(dic, key, default) == IF key \in DOMAIN dic THEN dic[key] ELSE -1

\* dict.get(key, default)
Get(dic, key, default) == IF key \in DOMAIN dic THEN dic[key] ELSE default

\* a Counter that stores the last increment instead of adding it: the fault
\* C11 rules out
CounterAddOverwrite(c, tok, n) == (tok :> n) @@ c

\* Counter: one more occurrence (n of them) of tok
CounterAdd(c, tok, n) == (tok :> Get(c, tok, 0) + n) @@ c

RECURSIVE CountToks(_, _, _)
CountToks(c, toks, n) ==
    IF toks = <<>> THEN c
    ELSE CountToks(CounterAdd(c, Head(toks), n), Tail(toks), n)

\* c = Counter(pagewords)
RECURSIVE Counter(_)
Counter(pagewords) ==
    IF pagewords = <<>> THEN <<>>
    ELSE LET k    == Len(pagewords)
             rest == Counter(SubSeq(pagewords, 1, k - 1))
         IN  CountToks(rest, pagewords[k].toks, pagewords[k].rep)

\* words | set(list(c.keys())): a new set; the order in which a set is
\* enumerated is not defined, so every order of the union is possible
SetUnion(ws, c) == Perms(Range(ws) \cup DOMAIN c)

\* f1 = urllib.request.urlopen(link): the response the paragraphs are read from
FirstResponse(link) == web[link]

\* the title read from the response the paragraphs came from: the fault C15
\* rules out
SecondResponseIsFirst(link) == web[link]

\* f2 = urllib.request.urlopen(link): the response the title is read from
SecondResponse(link) == web2[link]

\* one iteration of "for link in links" in which both urlopen calls succeed
ParseLink ==
    /\ notebook = "nmf" /\ pc = "cell2"
    /\ Len(dicts) < n_links
    /\ LET link == Len(dicts) + 1
           page == FirstResponse(link)
           c    == Counter(PageWords(page))
       IN  /\ fetches' = [fetches EXCEPT ![link] = 2]
           /\ titles' = Append(titles, SecondResponse(link).title)
           /\ dicts' = Append(dicts, c)
           /\ words' \in SetUnion(words, c)
           /\ pc' = IF link = n_links THEN "cell6" ELSE "cell2"
    /\ UNCHANGED <<notebook, web, web2, n_links, a, wordcounts, h, printed>>
    /\ UNCHANGED <<volVars, socpVars, excVars>>

\* one iteration in which the first or the second urlopen raises: nothing
\* catches it
FetchFail ==
    /\ notebook = "nmf" /\ pc = "cell2"
    /\ Len(dicts) < n_links
    /\ \E k \in 1..2 : fetches' = [fetches EXCEPT ![Len(dicts) + 1] = k]
    /\ pc' = "aborted"
    /\ UNCHANGED <<notebook, web, web2, n_links, dicts, titles, words, a, wordcounts, h, printed>>
    /\ UNCHANGED <<volVars, socpVars, excVars>>

-----------------------------------------------------------------------------
(* The nmf notebook: cells 6, 7 and 9, cleaning up the word list            *)

\* words = [word for word in words if not word in stopwords]
FilterStopwords(ws) == SelectSeq(ws, LAMBDA word : ~(word \in stopwords))

Cell6 ==
    /\ notebook = "nmf" /\ pc = "cell6"
    /\ words' = FilterStopwords(words)
    /\ pc' = "cell7"
    /\ UNCHANGED <<notebook, web, web2, n_links, fetches, dicts, titles, a, wordcounts, h, printed>>
    /\ UNCHANGED <<volVars, socpVars, excVars>>

\* the length below which cell 7 drops a word
MinWordLen == 4

\* words = [word for word in words if not len(word)<4]
FilterShort(ws) == SelectSeq(ws, LAMBDA word : ~(Len(word) < MinWordLen))

Cell7 ==
    /\ notebook = "nmf" /\ pc = "cell7"
    /\ words' = FilterShort(words)
    /\ pc' = "cell9"
    /\ UNCHANGED <<notebook, web, web2, n_links, fetches, dicts, titles, a, wordcounts, h, printed>>
    /\ UNCHANGED <<volVars, socpVars, excVars>>

\* str.startswith(prefix) for a one-character prefix
StartsWith(word, c) == Len(word) >= 1 /\ word[1] = c

\* cell 9 with the statement for '2' left out: the fault C3 rules out
Cell9PrefixesNoTwo == <<Pound, "1", "3", "4", "5", "6", "7", "8", "9", "0">>

\* the prefixes of cell 9, in the order of its statements
Cell9Prefixes == <<Pound, "1", "2", "3", "4", "5", "6", "7", "8", "9", "0">>

\* words = [word for word in words if not word.startswith(c)], once per prefix
RECURSIVE FilterPrefixes(_, _)
FilterPrefixes(ws, prefixes) ==
    IF prefixes = <<>> THEN ws
    ELSE FilterPrefixes(SelectSeq(ws, LAMBDA word : ~StartsWith(word, Head(prefixes))),
                        Tail(prefixes))

Cell9 ==
    /\ notebook = "nmf" /\ pc = "cell9"
    /\ words' = FilterPrefixes(words, Cell9Prefixes)
    /\ pc' = "cell11"
    /\ UNCHANGED <<notebook, web, web2, n_links, fetches, dicts, titles, a, wordcounts, h, printed>>
    /\ UNCHANGED <<volVars, socpVars, excVars>>

-----------------------------------------------------------------------------
(* The nmf notebook: cell 11, the data matrix                               *)

\* the counts of a word with the pages taken last to first: the column-order
\* fault C1 rules out
FreqsReversed(word, ds) == [j \in 1..Len(ds) |-> Get(ds[Len(ds) + 1 - j], word, 0)]

\* freqs = [dic.get(word, 0) for dic in dicts]
Freqs(word, ds) == [j \in 1..Len(ds) |-> Get(ds[j], word, 0)]

\* masterdict[word] = freqs on a dict kept as its (key, value) pairs in
\* insertion order: a key already present keeps its place
DictSet(md, key, val) ==
    IF \E k \in 1..Len(md) : md[k][1] = key
    THEN [k \in 1..Len(md) |-> IF md[k][1] = key THEN <<key, val>> ELSE md[k]]
    ELSE Append(md, <<key, val>>)

\* for word in words: masterdict[word] = freqs
RECURSIVE MasterDict(_, _)
MasterDict(ws, ds) ==
    IF ws = <<>> THEN <<>>
    ELSE LET k == Len(ws)
         IN  DictSet(MasterDict(SubSeq(ws, 1, k - 1), ds), ws[k], Freqs(ws[k], ds))

\* np.array(list(masterdict.values())): a list of m equally long rows is an
\* m x n array; an empty list is a one-dimensional array of length 0
NpArray(md) ==
    IF md = <<>>
    THEN [shape |-> <<0>>, data |-> <<>>]
    ELSE [shape |-> <<Len(md), Len(md[1][2])>>,
          data  |-> [i \in 1..Len(md) |-> md[i][2]]]

Cell11 ==
    /\ notebook = "nmf" /\ pc = "cell11"
    /\ a' = NpArray(MasterDict(words, dicts))
    /\ pc' = "cell13"
    /\ UNCHANGED <<notebook, web, web2, n_links, fetches, dicts, titles, words, wordcounts, h, printed>>
    /\ UNCHANGED <<volVars, socpVars, excVars>>

-----------------------------------------------------------------------------
(* The nmf notebook: cell 13, wordcounts.txt                                *)

Digits == <<"0", "1", "2", "3", "4", "5", "6", "7", "8", "9">>

\* str(n) for an integer n >= 0
RECURSIVE Str(_)
Str(n) == IF n < 10 THEN <<Digits[n + 1]>> ELSE Append(Str(n \div 10), Digits[(n % 10) + 1])

\* ' '*n
Spaces(n) == [k \in 1..n |-> " "]

\* str.ljust(width, ' '): padded on the right, never truncated
LJust(s, width) == IF Len(s) >= width THEN s ELSE s \o Spaces(width - Len(s))

\* str.center(width, ' '): never truncated; an odd amount of padding puts the
\* extra space on the left only when the width is odd too
Center(s, width) ==
    IF Len(s) >= width THEN s
    ELSE LET marg == width - Len(s)
             left == (marg \div 2) + ((marg % 2) * (width % 2))
         IN  Spaces(left) \o s \o Spaces(marg - left)

\* the width of the word column and of each count column
WordWidth == 14
CountWidth == 8

\* the concatenation of a list of strings
RECURSIVE Concat(_)
Concat(ss) == IF ss = <<>> THEN <<>> ELSE Head(ss) \o Concat(Tail(ss))

\* st = ' '*14, then st += ('link ' + str(i+1)).ljust(8, ' ') for each link
HeaderLine(n) ==
    Spaces(WordWidth) \o
    Concat([j \in 1..n |-> LJust(<<"l", "i", "n", "k", " ">> \o Str(j), CountWidth)])

\* st = v.ljust(14,' '), then st += str(int(a[i,j])).center(8, ' ') for each link
WordLine(v, i, arr, n) ==
    LJust(v, WordWidth) \o Concat([j \in 1..n |-> Center(Str(arr.data[i][j]), CountWidth)])

Cell13 ==
    /\ notebook = "nmf" /\ pc = "cell13"
    /\ wordcounts' = <<HeaderLine(n_links)>> \o
                     [i \in 1..Len(words) |-> WordLine(words[i], i, a, n_links)]
    /\ pc' = "cell14"
    /\ UNCHANGED <<notebook, web, web2, n_links, fetches, dicts, titles, words, a, h, printed>>
    /\ UNCHANGED <<volVars, socpVars, excVars>>

-----------------------------------------------------------------------------
(* The nmf notebook: cells 14, 19 and 20, factorisation and categories      *)

\* the number of features asked of real_nmf
k == 2

\* the entries real_nmf may return in h (all non-negative)
HValues == {0, 1}

\* m = a.shape[0]; n = a.shape[1]; w, h = real_nmf(a, k=2, ...): the library
\* returns a k x n coefficients matrix
Cell14 ==
    /\ notebook = "nmf" /\ pc = "cell14"
    /\ Len(a.shape) >= 2
    /\ h' \in [1..k -> [1..a.shape[2] -> HValues]]
    /\ pc' = "cell19"
    /\ UNCHANGED <<notebook, web, web2, n_links, fetches, dicts, titles, words, a, wordcounts, printed>>
    /\ UNCHANGED <<volVars, socpVars, excVars>>

\* n = a.shape[1] on a one-dimensional array raises IndexError: nothing
\* catches it
Cell14IndexError ==
    /\ notebook = "nmf" /\ pc = "cell14"
    /\ Len(a.shape) < 2
    /\ pc' = "aborted"
    /\ UNCHANGED <<notebook, nmfVars, volVars, socpVars, excVars>>

\* real_nmf raises: nothing catches it
Cell14Raise ==
    /\ notebook = "nmf" /\ pc = "cell14"
    /\ Len(a.shape) >= 2
    /\ raised' = raised \cup {"real_nmf"}
    /\ pc' = "aborted"
    /\ UNCHANGED <<notebook, nmfVars, volVars, socpVars, caught>>

\* the number of column names cell 19 gives pd.DataFrame: the notebook
\* hard-codes one per URL of its own URL file (15); the model keeps the two
\* equal at its own size
DisplayColumns == MaxLinks

\* display_h = pd.DataFrame(h, columns=[...]) raises ValueError unless h has
\* exactly as many columns as names
Cell19 ==
    /\ notebook = "nmf" /\ pc = "cell19"
    /\ pc' = IF Len(h[1]) = DisplayColumns THEN "cell20" ELSE "aborted"
    /\ UNCHANGED <<notebook, nmfVars, volVars, socpVars, excVars>>

\* the comparison of cell 20 written with >=: the fault C5 (amended) rules out
CategoryNotLess(hm, i) == IF hm[1][i] >= hm[2][i] THEN 0 ELSE 1

\* category = 0 if h[0,i] > h[1,i] else 1
Category(hm, i) == IF hm[1][i] > hm[2][i] THEN 0 ELSE 1

\* [" (Trump)"," (Brexit)"][category]
Label(category) == <<" (Trump)", " (Brexit)">>[category + 1]

\* one iteration of "for i, link in enumerate(links)"; titles[i][0] raises
\* IndexError when the page had no <title>
Cell20 ==
    /\ notebook = "nmf" /\ pc = "cell20"
    /\ Len(printed) < n_links
    /\ LET i        == Len(printed) + 1
           category == Category(h, i)
       IN  IF titles[i] = <<>>
           THEN /\ pc' = "aborted"
                /\ printed' = printed
           ELSE /\ printed' = Append(printed, [title    |-> titles[i][1],
                                               category |-> category,
                                               label    |-> Label(category)])
                /\ pc' = IF i = n_links THEN "done" ELSE "cell20"
    /\ UNCHANGED <<notebook, web, web2, n_links, fetches, dicts, titles, words, a, wordcounts, h>>
    /\ UNCHANGED <<volVars, socpVars, excVars>>

-----------------------------------------------------------------------------
(* The vol notebook                                                         *)

\* the option prices rand.dist_uniform(n, 3.9, 5.8, statecomm) may draw
PValues == {4, 5}

\* what specfun.opt_bsm_price may do: raise (no price is produced), or
\* return a price
BsmResults == {[raises |-> TRUE, price |-> -1],
               [raises |-> FALSE, price |-> 0],
               [raises |-> FALSE, price |-> 5]}

\* what roots.contfn_cntin may return, and what it records when it raises
SigmaValues == {-1, 0, 1}

\* def black_scholes(sigma, data): a price that cannot be computed counts as
\* zero; the value returned is price[0, 0] - data['p']
black_scholes(bsm, data) ==
    LET price == IF bsm.raises THEN 0 ELSE bsm.price
    IN  price - data.p

\* data['p'] = p[i] (the fields k, s0, t, r only reach opt_bsm_price)
Data(i) == [p |-> p[i]]

\* the data point the loop of cell 4 is working on
CurrentPoint == Len(outcome) + 1

\* contfn_cntin evaluates its callback once more for the current point
RootCallback ==
    /\ notebook = "vol" /\ pc = "cell4"
    /\ CurrentPoint <= n_points
    /\ nfev < nfmax
    /\ \E bsm \in BsmResults :
          /\ residual' = black_scholes(bsm, Data(CurrentPoint))
          /\ raised' = IF bsm.raises THEN raised \cup {"opt_bsm_price"} ELSE raised
          /\ caught' = IF bsm.raises THEN caught \cup {"opt_bsm_price"} ELSE caught
    /\ nfev' = nfev + 1
    /\ UNCHANGED <<notebook, pc, nmfVars, socpVars, p, outcome, errorcount, failures>>

\* where the run goes once the current point is dealt with
AfterPoint == IF CurrentPoint = n_points THEN "cell5" ELSE "cell4"

\* the test of cell 4 written with <=: the fault C8 (amended) rules out
CountReturnNonPositive(count, sigma) == IF sigma <= 0 THEN count + 1 ELSE count

\* the errorcount after contfn_cntin returned sigma
CountReturn(count, sigma) == IF sigma < 0 THEN count + 1 ELSE count

\* sigma = roots.contfn_cntin(...) returns; if sigma < 0.0: errorcount += 1
RootReturn ==
    /\ notebook = "vol" /\ pc = "cell4"
    /\ CurrentPoint <= n_points
    /\ \E sigma \in SigmaValues :
          /\ outcome' = Append(outcome, [kind |-> "return", sigma |-> sigma])
          /\ errorcount' = CountReturn(errorcount, sigma)
    /\ nfev' = 0
    /\ residual' = 0
    /\ pc' = AfterPoint
    /\ UNCHANGED <<notebook, nmfVars, socpVars, excVars, p, failures>>

\* cell 4 without its try/except: the exception of contfn_cntin ends the run,
\* the fault C7 (amended) rules out
RootRaiseUncaught ==
    /\ notebook = "vol" /\ pc = "cell4"
    /\ Len(outcome) + 1 <= n_points
    /\ raised' = raised \cup {"contfn_cntin"}
    /\ pc' = "aborted"
    /\ UNCHANGED <<notebook, nmfVars, volVars, socpVars, caught>>

\* the errorcount after the except clause of the loop ran
CountRaise(count) == count + 1

\* roots.contfn_cntin(...) raises; except: errorcount += 1, and the loop
\* goes on
RootRaise ==
    /\ notebook = "vol" /\ pc = "cell4"
    /\ CurrentPoint <= n_points
    /\ outcome' = Append(outcome, [kind |-> "raise", sigma |-> 0])
    /\ errorcount' = CountRaise(errorcount)
    /\ raised' = raised \cup {"contfn_cntin"}
    /\ caught' = caught \cup {"contfn_cntin"}
    /\ nfev' = 0
    /\ residual' = 0
    /\ pc' = AfterPoint
    /\ UNCHANGED <<notebook, nmfVars, socpVars, p, failures>>

\* the cells that call opt_imp_vol, in order, and the cell after each
ImpVolNext == [cell5 |-> "cell6", cell6 |-> "cell7", cell7 |-> "done"]

\* np.count_nonzero(ivalid)
CountNonzero(ivalid) == Cardinality({j \in 1..Len(ivalid) : ivalid[j] /= 0})

\* sigma, ivalid = specfun.opt_imp_vol('C', p, k, s0, t, r, mode=...), then the
\* number of nonzero entries of ivalid is printed
ImpVol ==
    /\ notebook = "vol" /\ pc \in DOMAIN ImpVolNext
    /\ \E ivalid \in [1..n_points -> {0, 1}] :
          failures' = Append(failures, CountNonzero(ivalid))
    /\ pc' = ImpVolNext[pc]
    /\ UNCHANGED <<notebook, nmfVars, socpVars, excVars, p, outcome, nfev, residual, errorcount>>

\* opt_imp_vol raises: nothing catches it
ImpVolRaise ==
    /\ notebook = "vol" /\ pc \in DOMAIN ImpVolNext
    /\ raised' = raised \cup {"opt_imp_vol"}
    /\ pc' = "aborted"
    /\ UNCHANGED <<notebook, nmfVars, volVars, socpVars, caught>>

-----------------------------------------------------------------------------
(* The socp notebook                                                        *)

\* the cells with the options set only after the solver has run: the fault
\* C13 rules out
ProgramOptionsLate ==
    <<"handle_init", "handle_set_linobj", "handle_set_simplebounds",
      "handle_set_linconstr", "handle_set_group", "handle_solve_socp_ipm",
      "handle_opt_set", "handle_opt_set", "handle_free">>

\* the handle calls of cells 1 to 9, in the order the cells make them
Program ==
    <<"handle_init", "handle_set_linobj", "handle_set_simplebounds",
      "handle_set_linconstr", "handle_set_group", "handle_opt_set",
      "handle_opt_set", "handle_solve_socp_ipm", "handle_free">>

\* the options of cell 5, in the order of its loop
Options == <<"Print Options = NO", "Print Level = 1">>

\* the options on the handle after a call has returned
OptionsAfter(opts, call) ==
    IF call = "handle_opt_set" THEN Append(opts, Options[Len(opts) + 1]) ELSE opts

\* the call the run is about to make
NextCall == Program[Len(calls) + 1]

\* the handle after a call on it has returned
HandleAfter(hd, call) ==
    IF call = "handle_init" THEN "live"
    ELSE IF call = "handle_free" THEN "freed"
    ELSE hd

\* the next handle call returns
SocpCall ==
    /\ notebook = "socp" /\ pc = "cells"
    /\ calls' = Append(calls, NextCall)
    /\ handle' = HandleAfter(handle, NextCall)
    /\ options' = OptionsAfter(options, NextCall)
    /\ pc' = IF Len(calls) + 1 = Len(Program) THEN "done" ELSE "cells"
    /\ UNCHANGED <<notebook, nmfVars, volVars, excVars>>

\* the next handle call raises: nothing catches it, the later cells do not run
SocpRaise ==
    /\ notebook = "socp" /\ pc = "cells"
    /\ raised' = raised \cup {NextCall}
    /\ pc' = "aborted"
    /\ UNCHANGED <<notebook, nmfVars, volVars, socpVars, caught>>

-----------------------------------------------------------------------------
(* Initial states: one notebook is run, the variables of the others idle    *)

IdleNmf ==
    /\ n_links = 0 /\ web = <<>> /\ web2 = <<>> /\ fetches = <<>> /\ dicts = <<>> /\ titles = <<>>
    /\ words = <<>> /\ a = [shape |-> <<0>>, data |-> <<>>] /\ wordcounts = <<>>
    /\ h = <<>> /\ printed = <<>>

IdleVol ==
    /\ p = <<>> /\ outcome = <<>> /\ nfev = 0 /\ residual = 0 /\ errorcount = 0
    /\ failures = <<>>

IdleSocp == handle = "none" /\ calls = <<>> /\ options = <<>>

InitNmf ==
    /\ notebook = "nmf"
    /\ n_links \in 0..MaxLinks
    /\ web \in [1..n_links -> Pages]
    /\ web2 \in [1..n_links -> Pages \cup {PageA2}]
    /\ \A j \in 1..n_links : web2[j] \in SecondPages(web[j])
    /\ fetches = [j \in 1..n_links |-> 0]
    /\ dicts = <<>>
    /\ titles = <<>>
    /\ words = <<>>
    /\ a = [shape |-> <<0>>, data |-> <<>>]
    /\ wordcounts = <<>>
    /\ h = <<>>
    /\ printed = <<>>
    /\ pc = IF n_links = 0 THEN "cell6" ELSE "cell2"
    /\ IdleVol /\ IdleSocp

InitVol ==
    /\ notebook = "vol"
    /\ p \in [1..n_points -> PValues]
    /\ outcome = <<>>
    /\ nfev = 0
    /\ residual = 0
    /\ errorcount = 0
    /\ failures = <<>>
    /\ pc = IF n_points = 0 THEN "cell5" ELSE "cell4"
    /\ IdleNmf /\ IdleSocp

InitSocp ==
    /\ notebook = "socp"
    /\ handle = "none"
    /\ calls = <<>>
    /\ options = <<>>
    /\ pc = "cells"
    /\ IdleNmf /\ IdleVol

Init ==
    /\ raised = {} /\ caught = {}
    /\ (InitNmf \/ InitVol \/ InitSocp)

Next ==
    \/ ParseLink
    \/ FetchFail
    \/ Cell6
    \/ Cell7
    \/ Cell9
    \/ Cell11
    \/ Cell13
    \/ Cell14
    \/ Cell14IndexError
    \/ Cell14Raise
    \/ Cell19
    \/ Cell20
    \/ RootCallback
    \/ RootReturn
    \/ RootRaise
    \/ ImpVol
    \/ ImpVolRaise
    \/ SocpCall
    \/ SocpRaise

Spec == Init /\ [][Next]_vars

-----------------------------------------------------------------------------
(* Properties of the nmf notebook                                           *)

\* the tokens parsed from a page, paragraph by paragraph
ParaTokens(para) == Split(Translate(Lower(para.text)))

\* how often a word occurs among the tokens parsed from a page
RECURSIVE OccurrencesIn(_, _)
OccurrencesIn(word, paras) ==
    IF paras = <<>> THEN 0
    ELSE LET toks == ParaTokens(Head(paras))
         IN  Head(paras).rep * Cardinality({x \in 1..Len(toks) : toks[x] = word})
             + OccurrencesIn(word, Tail(paras))

Occurrences(word, page) == OccurrencesIn(word, page.paras)

\* the words seen in any of the pages
SeenWords ==
    UNION {UNION {Range(ParaTokens(web[j].paras[x])) : x \in 1..Len(web[j].paras)} :
           j \in 1..n_links}

\* cell 11 has run (the run may have gone on to any later cell)
MatrixBuilt == notebook = "nmf" /\ pc \in {"cell13", "cell14", "cell19", "cell20", "done"}

\* cells 6, 7 and 9 have run
Cleaned == notebook = "nmf" /\ pc \in {"cell11", "cell13", "cell14", "cell19", "cell20", "done"}

\* C1: entry (i,j) of the data matrix is the number of occurrences of
\* words[i] among the tokens parsed from URL j, 0 when there is none
C1_MatrixCounts ==
    MatrixBuilt =>
        \A i \in 1..Len(words) : \A j \in 1..n_links :
            /\ Len(a.shape) = 2
            /\ a.data[i][j] = Occurrences(words[i], web[j])

C1_Witness ==
    /\ MatrixBuilt /\ Len(words) = 2 /\ n_links = 2
    /\ \E i \in 1..2 : \E j \in 1..2 : a.data[i][j] = 0 /\ Occurrences(words[i], web[j]) = 0
    /\ \E i \in 1..2 : \E j \in 1..2 : a.data[i][j] = 3
    /\ a.data[1] /= a.data[2]

\* C2: every entry of the data matrix is a non-negative integer
C2_NonNegative ==
    MatrixBuilt =>
        \A i \in 1..Len(words) : \A j \in 1..n_links : a.data[i][j] \in Nat

C2_Witness ==
    /\ MatrixBuilt /\ words /= <<>>
    /\ \E i \in 1..Len(words) : \E j \in 1..n_links : a.data[i][j] = 0
    /\ \E i \in 1..Len(words) : \E j \in 1..n_links : a.data[i][j] > 0

\* a word starts with a digit or a pound sign
NumericLeading(word) == word /= <<>> /\ word[1] \in Range(Digits) \cup {Pound}

\* a word passes the three tests of the cleaning cells
Wanted(word) == word \notin stopwords /\ Len(word) >= 4 /\ ~NumericLeading(word)

\* C3: after the cleaning cells the word list holds no stopword, no word
\* shorter than 4 characters and no word starting with a digit or a pound
\* sign, and every word seen in some page that passes the three tests
C3_Cleaned ==
    Cleaned =>
        /\ \A x \in 1..Len(words) : Wanted(words[x])
        /\ \A word \in SeenWords : Wanted(word) => word \in Range(words)

C3_Witness ==
    /\ Cleaned /\ words /= <<>>
    /\ \E word \in SeenWords : word \in stopwords
    /\ \E word \in SeenWords : word \notin stopwords /\ Len(word) >= 4 /\ NumericLeading(word)
    /\ \E word \in SeenWords : word \notin stopwords /\ Len(word) < 4

\* the order of characters by code point, for the characters of a token
CodePointOrder == Digits \o LowerCase \o <<Pound>>

CodeRank(c) == CHOOSE x \in 1..Len(CodePointOrder) : CodePointOrder[x] = c

\* s < t as Python compares strings
RECURSIVE StrLess(_, _)
StrLess(s, t) ==
    IF t = <<>> THEN FALSE
    ELSE IF s = <<>> THEN TRUE
    ELSE IF Head(s) = Head(t) THEN StrLess(Tail(s), Tail(t))
    ELSE CodeRank(Head(s)) < CodeRank(Head(t))

\* C4: after the parsing loop words holds every word seen in any URL, each
\* once, in alphabetical order
C4_Alphabetical ==
    (notebook = "nmf" /\ pc = "cell6") =>
        /\ Range(words) = SeenWords
        /\ \A x \in 1..Len(words) : \A y \in 1..Len(words) :
              x < y => StrLess(words[x], words[y])

\* C5 as claimed: category 0 exactly when h[0,i] is the largest entry of
\* column i, category 1 exactly when h[1,i] is, equal entries included
C5_LargestBothWays ==
    notebook = "nmf" =>
        \A i \in 1..Len(printed) :
            /\ printed[i].category = 0 <=> h[1][i] >= h[2][i]
            /\ printed[i].category = 1 <=> h[2][i] >= h[1][i]

\* C5 as amended: category 0 exactly when h[0,i] is strictly larger than
\* h[1,i], category 1 otherwise, so equal entries give category 1
C5_StrictlyLarger ==
    notebook = "nmf" =>
        \A i \in 1..Len(printed) :
            /\ printed[i].category \in {0, 1}
            /\ printed[i].category = 0 <=> h[1][i] > h[2][i]
            /\ printed[i].category = 1 <=> h[2][i] >= h[1][i]

C5_Witness ==
    /\ notebook = "nmf" /\ Len(printed) = 2
    /\ h[1][1] = h[2][1] /\ printed[1].category = 1
    /\ h[1][2] > h[2][2] /\ printed[2].category = 0

\* C6: the label printed next to category 0 is Brexit and next to category
\* 1 is Trump
C6_Labels ==
    notebook = "nmf" =>
        \A i \in 1..Len(printed) :
            /\ printed[i].category = 0 => printed[i].label = " (Brexit)"
            /\ printed[i].category = 1 => printed[i].label = " (Trump)"

-----------------------------------------------------------------------------
(* Properties of the vol notebook                                           *)

\* the routines whose exceptions the vol notebook catches
Recovered == {"opt_bsm_price", "contfn_cntin"}

\* C7 as claimed: no exception of the library is caught, and a library
\* call that raises ends the run
C7_NoRecovery ==
    /\ caught = {}
    /\ raised /= {} => pc = "aborted"

\* C7 as amended: the exceptions of opt_bsm_price and of contfn_cntin are
\* caught and the loop goes on; an exception of any other library routine
\* is not caught and ends the run
C7_RecoveryInRootFinder ==
    /\ caught = raised \cap Recovered
    /\ raised \ Recovered /= {} => pc = "aborted"
    /\ (notebook = "vol" /\ raised \subseteq Recovered) => pc /= "aborted"
    /\ (notebook = "vol" /\ pc = "cell4") => Len(outcome) < n_points

C7_Witness ==
    /\ notebook = "vol" /\ pc = "done"
    /\ raised = Recovered /\ caught = Recovered
    /\ Len(outcome) >= 2 /\ outcome[1].kind = "raise" /\ outcome[2].kind = "return"

\* the loop of cell 4 has finished
LoopDone == notebook = "vol" /\ pc \in {"cell5", "cell6", "cell7", "done"}

\* the data points whose contfn_cntin call raised
RaisedPoints == {j \in 1..Len(outcome) : outcome[j].kind = "raise"}

\* the data points whose contfn_cntin call returned a negative sigma
NegativePoints == {j \in 1..Len(outcome) : outcome[j].kind = "return" /\ outcome[j].sigma < 0}

\* C8 as claimed: errorcount is the number of data points whose root-finder
\* call raised
C8_CountsRaises ==
    LoopDone => Len(outcome) = n_points /\ errorcount = Cardinality(RaisedPoints)

\* C8 as amended: errorcount is the number of data points whose root-finder
\* call raised or returned a negative sigma
C8_CountsRaisesAndNegatives ==
    LoopDone =>
        /\ Len(outcome) = n_points
        /\ errorcount = Cardinality(RaisedPoints) + Cardinality(NegativePoints)

C8_Witness ==
    /\ LoopDone /\ errorcount = 2
    /\ Cardinality(RaisedPoints) = 1 /\ Cardinality(NegativePoints) = 1

-----------------------------------------------------------------------------
(* Properties of the socp notebook                                          *)

\* the positions of the log at which a call was made
CallsOf(name) == {x \in 1..Len(calls) : calls[x] = name}

\* C9: once the run has ended with the handle created, handle_free was
\* called on it exactly once and no handle call followed it
C9_FreedOnce ==
    (notebook = "socp" /\ pc \in {"done", "aborted"} /\ CallsOf("handle_init") /= {}) =>
        /\ Cardinality(CallsOf("handle_free")) = 1
        /\ calls[Len(calls)] = "handle_free"

-----------------------------------------------------------------------------
(* Properties of wordcounts.txt                                             *)

\* int(s) for a string of digits
RECURSIVE Int_(_)
Int_(s) ==
    IF s = <<>> THEN 0
    ELSE 10 * Int_(SubSeq(s, 1, Len(s) - 1))
         + (CHOOSE d \in 0..9 : Digits[d + 1] = s[Len(s)])

\* cell 13 has run
FileWritten == notebook = "nmf" /\ pc \in {"cell14", "cell19", "cell20", "done"}

\* C10: the line of every word splits on whitespace into the word followed
\* by the n_links counts of its row, so that the file reads back as the
\* same words and the same matrix
C10_WhitespaceDelimited ==
    FileWritten =>
        \A i \in 1..Len(words) :
            LET fields == Split(wordcounts[i + 1])
            IN  /\ Len(fields) = n_links + 1
                /\ fields[1] = words[i]
                /\ \A j \in 1..n_links : Int_(fields[j + 1]) = a.data[i][j]

-----------------------------------------------------------------------------
(* Further properties of the nmf notebook                                   *)

\* the parsing loop of cell 2 has run to its end
Parsed ==
    notebook = "nmf" /\ pc \in {"cell6", "cell7", "cell9", "cell11", "cell13", "cell14",
                               "cell19", "cell20", "done"}

\* the tokens of a page, as a set
PageTokens(page) == UNION {Range(ParaTokens(page.paras[x])) : x \in 1..Len(page.paras)}

\* C11: after the parsing loop dicts holds one dictionary per URL, in the
\* order of the URL list, as many as titles; dicts[j] maps each token of
\* page j to its number of occurrences there, which is at least 1
C11_OneCounterPerUrl ==
    Parsed =>
        /\ Len(dicts) = n_links
        /\ Len(titles) = n_links
        /\ \A j \in 1..n_links :
              /\ DOMAIN dicts[j] = PageTokens(web[j])
              /\ \A word \in DOMAIN dicts[j] :
                    dicts[j][word] = Occurrences(word, web[j]) /\ dicts[j][word] >= 1

C11_Witness ==
    /\ Parsed /\ n_links = 2 /\ web[1] /= web[2]
    /\ \E word \in DOMAIN dicts[1] : dicts[1][word] = 2
    /\ \E word \in DOMAIN dicts[2] : dicts[2][word] = 1
    /\ DOMAIN dicts[1] /= DOMAIN dicts[2]

\* C12: the filtered word list has no duplicates and the data matrix has
\* shape (len(words), n_links), an empty word list included
C12_Shape ==
    MatrixBuilt =>
        /\ \A x \in 1..Len(words) : \A y \in 1..Len(words) : words[x] = words[y] => x = y
        /\ a.shape = <<Len(words), n_links>>

\* C14: every token is non-empty, holds no upper-case letter, no whitespace
\* and no ASCII punctuation character
C14_Tokens ==
    notebook = "nmf" =>
        \A j \in 1..Len(dicts) : \A word \in DOMAIN dicts[j] :
            /\ word /= <<>>
            /\ \A x \in 1..Len(word) :
                  word[x] \notin Range(UpperCase) \cup Whitespace \cup Punctuation

\* a page with upper-case letters, punctuation and several spaces in a row
\* has been tokenised
C14_Witness ==
    /\ notebook = "nmf" /\ Len(dicts) >= 1
    /\ \E x \in 1..Len(web[1].paras) :
          LET text == web[1].paras[x].text
          IN  /\ \E y \in 1..Len(text) : text[y] \in Range(UpperCase)
              /\ \E y \in 1..Len(text) : text[y] \in Punctuation
              /\ \E y \in 1..Len(text) - 1 : text[y] = "," /\ text[y + 1] = " "
    /\ Cardinality(DOMAIN dicts[1]) >= 3

-----------------------------------------------------------------------------
(* Further properties of the socp notebook                                  *)

\* the calls that set the objective, the bounds, the constraints and the cone
Setters ==
    {"handle_set_linobj", "handle_set_simplebounds", "handle_set_linconstr",
     "handle_set_group"}

\* every call of the first name precedes every call of the second
Precedes(first, second) ==
    \A x \in CallsOf(first) : \A y \in CallsOf(second) : x < y

\* C13: handle_init precedes every other handle call; the objective, the
\* bounds, the linear constraints, the cone group and each option are set
\* exactly once, all before the solver; the solver is called exactly once,
\* before handle_free
C13_FixedOrder ==
    notebook = "socp" =>
        /\ calls /= <<>> => CallsOf("handle_init") = {1}
        /\ \A name \in Setters : Cardinality(CallsOf(name)) <= 1
        /\ Cardinality(CallsOf("handle_solve_socp_ipm")) <= 1
        /\ Len(options) = Cardinality(CallsOf("handle_opt_set"))
        /\ \A x \in 1..Len(options) : \A y \in 1..Len(options) :
              options[x] = options[y] => x = y
        /\ CallsOf("handle_solve_socp_ipm") /= {} =>
              /\ \A name \in Setters :
                    /\ Cardinality(CallsOf(name)) = 1
                    /\ Precedes(name, "handle_solve_socp_ipm")
              /\ options = Options
              /\ Precedes("handle_opt_set", "handle_solve_socp_ipm")
        /\ CallsOf("handle_free") /= {} =>
              /\ Cardinality(CallsOf("handle_solve_socp_ipm")) = 1
              /\ Precedes("handle_solve_socp_ipm", "handle_free")
        /\ pc = "done" => CallsOf("handle_free") /= {}

C13_Witness ==
    /\ notebook = "socp" /\ pc = "done"
    /\ Len(calls) = 9 /\ options = Options /\ handle = "freed"
    /\ calls[8] = "handle_solve_socp_ipm"

-----------------------------------------------------------------------------
(* The fetches of the parsing loop                                          *)

\* C15: every URL parsed was fetched exactly twice, its paragraphs counted
\* from the first response and its title taken from the second; URLs are
\* taken in file order; a fetch that fails is not retried and stops the loop
\* with the dictionaries and titles of the earlier URLs and nothing for the
\* failing one
C15_TwoFetches ==
    notebook = "nmf" =>
        /\ Len(titles) = Len(dicts)
        /\ \A j \in 1..n_links :
              /\ fetches[j] \in 0..2
              /\ j <= Len(dicts) =>
                    /\ fetches[j] = 2
                    /\ titles[j] = web2[j].title
                    /\ DOMAIN dicts[j] = PageTokens(web[j])
                    /\ \A word \in DOMAIN dicts[j] : dicts[j][word] = Occurrences(word, web[j])
              /\ j > Len(dicts) + 1 => fetches[j] = 0
        /\ (Len(dicts) < n_links /\ fetches[Len(dicts) + 1] > 0) => pc = "aborted"
        /\ (Len(dicts) < n_links /\ pc /= "aborted") => pc = "cell2"

\* the second fetch of the second URL failed after the first URL was parsed
\* from two different responses
C15_Witness ==
    /\ notebook = "nmf" /\ pc = "aborted" /\ n_links = 2
    /\ Len(dicts) = 1 /\ Len(titles) = 1 /\ fetches = <<2, 2>>
    /\ web2[1] /= web[1] /\ titles[1] = web2[1].title /\ titles[1] /= web[1].title

====
